---- MODULE Spec2Model ----
(***************************************************************************)
(* Model of the CORC BLE peripheral of src/main.py: the radio event        *)
(* callback _irq, the command task _process_commands with its single-slot  *)
(* wake flag, the run() loop that restarts advertising, the connection map *)
(* and the request/response framing.                                       *)
(*                                                                         *)
(* The callback runs from the MicroPython scheduler, that is between any   *)
(* two steps of the cooperative task; every IRQ action below is atomic and *)
(* may interleave with the consumer and with the run() loop at each of     *)
(* their program points.                                                   *)
(***************************************************************************)
EXTENDS Integers, Sequences, FiniteSets, TLC

\* ------------------------------------------------------------------------
\* Program constants (src/main.py)
\* ------------------------------------------------------------------------
CORC_PROTOCOL_MAGIC == 49276

RES_OK == 0

RES_REQUEST_NOT_SUPPORTED == 6

RES_INVALID_ATTRIBUTE_LENGTH == 13

RES_UNSUPPORTED == 17

OPCODE_PING == 1

OPCODE_VERSION == 2

OPCODE_GET_DATA_MAX_LEN == 3

\* initial_mtu of BleConnection as passed by _add_connection
INITIAL_MTU == 23

\* max_len used by GetDataMaxLen when the handle has no BleConnection
DEFAULT_MAX_LEN == 20

\* header of a request: Magic(2), RequestId(1), Opcode(1), Len(1)
HEADER_LEN == 5

\* CORC_DEVICE_NAME = "CORC", as code points
CORC_DEVICE_NAME == <<67, 79, 82, 67>>

\* advertising data types and the size of an advertising payload
ADV_TYPE_FLAGS == 1

ADV_TYPE_NAME == 9

ADV_MAX_LEN == 31

\* value handles returned by gatts_register_services
rx_handle == 9

tx_handle == 11

\* ------------------------------------------------------------------------
\* Bounds of the model
\* ------------------------------------------------------------------------
\* Write events enqueued in one behaviour of SpecQueue
MaxWrites == 3

\* Write events enqueued in one behaviour of Spec and of SpecIrq
MaxFrames == 2

\* longest payload of the frames SpecCodec decodes
MaxPayload == 2

\* longest device name, in characters, SpecAdv builds a payload from
MaxNameLen == 30

\* most minutes of a time stamp SpecClock formats
MaxMinutes == 100

Handles == {1, 2}

\* (addr_type, addr) pairs a central connects with
Peers == {<<0, 161>>, <<1, 178>>}

\* MTU values the radio reports in _IRQ_MTU_EXCHANGED
MtuValues == {185, 300}

Byte == 0..255

\* ------------------------------------------------------------------------
\* bytes / bytearray helpers
\* ------------------------------------------------------------------------
\* value[a:b] of Python: clipped to the sequence, never raises
Slice(value, a, b) ==
    LET hi == IF b < Len(value) THEN b ELSE Len(value)
    IN  IF a >= hi THEN <<>> ELSE [i \in 1..(hi - a) |-> value[a + i]]

\* int.to_bytes(2, "little")
ToBytesLE2(n) == <<n % 256, (n \div 256) % 256>>

\* int.from_bytes(b, "little")
RECURSIVE FromBytesLE(_)
FromBytesLE(b) ==
    IF b = <<>> THEN 0 ELSE b[1] + 256 * FromBytesLE(Tail(b))

\* None of Python, for the integer fields of a BleConnection that are unset
None == -1

\* ------------------------------------------------------------------------
\* Frame codec, as _process_commands and send_response compute it
\* ------------------------------------------------------------------------
\* send_response with the magic written big endian
EncodeResponse_BigEndian(request_id, opcode, result, payload) ==
    <<(CORC_PROTOCOL_MAGIC \div 256) % 256, CORC_PROTOCOL_MAGIC % 256>>
        \o <<request_id, opcode, result, Len(payload)>>
        \o payload

\* send_response: Magic(2), RequestId(1), Opcode(1), Result(1), Len(1), Payload(N)
EncodeResponse(request_id, opcode, result, payload) ==
    ToBytesLE2(CORC_PROTOCOL_MAGIC)
        \o <<request_id, opcode, result, Len(payload)>>
        \o payload

\* the length check one byte short of the header
TooShort_OffByOne(value) == Len(value) < HEADER_LEN - 1

\* if len(value) < 5
TooShort(value) == Len(value) < HEADER_LEN

\* the magic read big endian
BadMagic_BigEndian(value) ==
    value[1] * 256 + value[2] # CORC_PROTOCOL_MAGIC

\* magic = int.from_bytes(value[0:2], "little"); if magic != CORC_PROTOCOL_MAGIC
BadMagic(value) == FromBytesLE(Slice(value, 0, 2)) # CORC_PROTOCOL_MAGIC

\* value[i] of Python raises IndexError unless i < len(value)
CanIndex(value, i) == i < Len(value)

\* value[i] for an index that exists (Python counts from 0)
At(value, i) == value[i + 1]

\* payload = value[5: 5 + payload_len]
PayloadOf(value) == Slice(value, HEADER_LEN, HEADER_LEN + At(value, 4))

\* the payload check with != for <: bytes after the declared payload make the
\* frame incomplete
Truncated_Strict(value) == Len(value) # HEADER_LEN + At(value, 4)

\* the payload check with <= for <: a frame of exactly the declared length
\* counts as incomplete
Truncated_Inclusive(value) == Len(value) <= HEADER_LEN + At(value, 4)

\* if len(value) < 5 + payload_len
Truncated(value) == Len(value) < HEADER_LEN + At(value, 4)

\* max_len = (conn.mtu - 3) if conn else 20; conn is <<>> or <<record>>
MaxLenOf(conn) == IF conn # <<>> THEN conn[1].mtu - 3 ELSE DEFAULT_MAX_LEN

\* bytes([n]) raises ValueError unless 0 <= n <= 255
BytesOfOne(n) == IF n \in Byte THEN <<n>> ELSE <<>>

\* What becomes of a popped value, in the part of one iteration that touches no
\* shared state (lines 346-376 and 385-387):
\*   kind "drop"   the frame is logged and skipped (continue)
\*   kind "resp"   send_response has built `frame`
\*   kind "maxlen" GetDataMaxLen: conn.mtu is still to be read
\*   kind "raise"  an exception leaves the iteration
Outcome(kind, why, frame) == [kind |-> kind, why |-> why, frame |-> frame]

\* the dispatch as a handler table without a default: an unknown opcode is
\* a KeyError
Dispatch_NoDefault(request_id, opcode) ==
    IF opcode = OPCODE_PING THEN
        Outcome("resp", "Ping", EncodeResponse(request_id, opcode, RES_OK, <<>>))
    ELSE IF opcode = OPCODE_VERSION THEN
        Outcome("resp", "Version",
                EncodeResponse(request_id, opcode, RES_OK, <<1, 0, 0>>))
    ELSE IF opcode = OPCODE_GET_DATA_MAX_LEN THEN
        Outcome("maxlen", "GetDataMaxLen", <<>>)
    ELSE
        Outcome("raise", "KeyError", <<>>)

\* Dispatch by opcode: the if/elif chain of lines 371-387
Dispatch(request_id, opcode) ==
    IF opcode = OPCODE_PING THEN
        Outcome("resp", "Ping", EncodeResponse(request_id, opcode, RES_OK, <<>>))
    ELSE IF opcode = OPCODE_VERSION THEN
        Outcome("resp", "Version",
                EncodeResponse(request_id, opcode, RES_OK, <<1, 0, 0>>))
    ELSE IF opcode = OPCODE_GET_DATA_MAX_LEN THEN
        Outcome("maxlen", "GetDataMaxLen", <<>>)
    ELSE
        Outcome("resp", "Unsupported",
                EncodeResponse(request_id, opcode, RES_UNSUPPORTED, <<>>))

\* The header checks of lines 346-365, then the dispatch
Classify(value) ==
    IF TooShort(value) THEN Outcome("drop", "TooShort", <<>>)
    ELSE IF BadMagic(value) THEN Outcome("drop", "BadMagic", <<>>)
    ELSE IF ~(CanIndex(value, 2) /\ CanIndex(value, 3) /\ CanIndex(value, 4))
    THEN Outcome("raise", "IndexError", <<>>)
    ELSE IF Truncated(value) THEN
        Outcome("resp", "Truncated",
                EncodeResponse(At(value, 2), At(value, 3),
                               RES_INVALID_ATTRIBUTE_LENGTH, <<>>))
    ELSE Dispatch(At(value, 2), At(value, 3))

\* ------------------------------------------------------------------------
\* Advertising payload and time stamp
\* ------------------------------------------------------------------------
\* one code point in UTF-8 (code points below 0x10000)
Utf8(cp) ==
    IF cp < 128 THEN <<cp>>
    ELSE IF cp < 2048 THEN <<192 + (cp \div 64), 128 + (cp % 64)>>
    ELSE IF cp < 65536 THEN
        <<224 + (cp \div 4096), 128 + ((cp \div 64) % 64), 128 + (cp % 64)>>
    ELSE <<240 + (cp \div 262144), 128 + ((cp \div 4096) % 64),
           128 + ((cp \div 64) % 64), 128 + (cp % 64)>>

\* name.encode("utf-8")
RECURSIVE Utf8Encode(_)
Utf8Encode(str) ==
    IF str = <<>> THEN <<>> ELSE Utf8(Head(str)) \o Utf8Encode(Tail(str))

\* the room for the name computed without the two bytes of its own header
build_adv_name_payload_NoHeaderRoom(str) ==
    LET payload == <<2, ADV_TYPE_FLAGS, 6>>
    IN  IF str # <<>> THEN
            LET max_name_len == ADV_MAX_LEN - Len(payload)
                name_bytes == Slice(Utf8Encode(str), 0,
                                    IF max_name_len < 0 THEN 0 ELSE max_name_len)
            IN  payload \o <<Len(name_bytes) + 1, ADV_TYPE_NAME>> \o name_bytes
        ELSE payload

\* _build_adv_name_payload: flags, then the name cut to the room left of 31
build_adv_name_payload(str) ==
    LET payload == <<2, ADV_TYPE_FLAGS, 6>>
    IN  IF str # <<>> THEN
            LET max_name_len == ADV_MAX_LEN - Len(payload) - 2
                name_bytes == Slice(Utf8Encode(str), 0,
                                    IF max_name_len < 0 THEN 0 ELSE max_name_len)
            IN  payload \o <<Len(name_bytes) + 1, ADV_TYPE_NAME>> \o name_bytes
        ELSE payload

\* the characters of the decimal digits
Digit(n) == <<"0", "1", "2", "3", "4", "5", "6", "7", "8", "9">>[n + 1]

\* str(n) for n >= 0
RECURSIVE Decimal(_)
Decimal(n) ==
    IF n < 10 THEN <<Digit(n)>> ELSE Decimal(n \div 10) \o <<Digit(n % 10)>>

\* the format specs 02d and 03d: zeros in front up to the width
RECURSIVE ZeroPad(_, _)
ZeroPad(digits, width) ==
    IF Len(digits) >= width THEN digits ELSE ZeroPad(<<"0">> \o digits, width)

\* format_timestamp_ms with the minutes wrapped at the hour
format_timestamp_ms_Wrapped(d) ==
    LET mm == (d \div 60000) % 60
        ss == (d \div 1000) % 60
        ms == d % 1000
    IN  ZeroPad(Decimal(mm), 2) \o <<":">> \o ZeroPad(Decimal(ss), 2)
            \o <<".">> \o ZeroPad(Decimal(ms), 3)

\* format_timestamp_ms: f"{mm:02d}:{ss:02d}.{ms:03d}"
format_timestamp_ms(d) ==
    LET mm == d \div 60000
        ss == (d \div 1000) % 60
        ms == d % 1000
    IN  ZeroPad(Decimal(mm), 2) \o <<":">> \o ZeroPad(Decimal(ss), 2)
            \o <<".">> \o ZeroPad(Decimal(ms), 3)

\* ------------------------------------------------------------------------
\* State
\* ------------------------------------------------------------------------
VARIABLES
    connections,       \* self._connections: conn_handle -> BleConnection
    cmd_queue,         \* self._cmd_queue: list of (conn_handle, value)
    cmd_event,         \* self._cmd_event: state of the ThreadSafeFlag
    should_advertise,  \* self._should_advertise
    pc,                \* program point of the _process_commands task
    cur,               \* its locals conn_handle, value (the popped entry)
    conn,              \* its local conn: <<>> for None, else <<BleConnection>>
    conn_live,         \* conn is the very object connections holds for its handle
    frame,             \* the frame send_response has built, <<>> if none
    sent,              \* gatts_notify calls made for the popped entry
    written,           \* Write events enqueued so far (numbers the entries)
    last,              \* the step taken last, as the log shows it
    run_pc,            \* program point of the run() task
    ended,             \* numbers of the entries written before the latest
                       \* Connect on their handle (kept where a specification
                       \* follows it, empty elsewhere)
    name,              \* self._name, as its code points
    adv_payload,       \* self._adv_payload, <<>> before line 195 has run
    diff_time_ms,      \* the argument of format_timestamp_ms
    stamp              \* the string it returns, <<>> before the call

\* what __init__ sets once
startup == <<name, adv_payload>>

\* the time stamp of the log lines
clock == <<diff_time_ms, stamp>>

vars == <<connections, cmd_queue, cmd_event, should_advertise, pc, cur, conn,
          conn_live, frame, sent, written, last, run_pc, ended, startup,
          clock>>

\* BleConnection.__init__
BleConnection(conn_handle, addr_type, addr, initial_mtu) ==
    [conn_handle |-> conn_handle, addr_type |-> addr_type, addr |-> addr,
     mtu |-> initial_mtu,
     conn_interval |-> None, conn_latency |-> None,
     supervision_timeout |-> None, conn_status |-> None,
     encrypted |-> FALSE, authenticated |-> FALSE, bonded |-> FALSE,
     key_size |-> None]

NoEntry == [conn_handle |-> 0, value |-> <<>>, seq |-> 0]

\* op and h name the step; removed, ok, peer, ret and adv are what it reports:
\* entries or BleConnections removed, whether it returned normally, the
\* (addr_type, addr) of a Connect, what _remove_connection returned (<<>> for
\* None) and the outcome of the gap_advertise call it made ("-" for no call)
Step(op, h) ==
    [op |-> op, h |-> h, removed |-> 0, ok |-> TRUE, peer |-> <<>>,
     ret |-> <<>>, adv |-> "-"]

\* mark of a step that leaves no record
Quiet == Step("-", 0)

\* CorcBlePeripheral.__init__ followed by run() creating the command task,
\* which runs up to its first await
Init ==
    /\ connections = <<>>
    /\ cmd_queue = <<>>
    /\ cmd_event = FALSE
    /\ should_advertise = FALSE
    /\ pc = "wait"
    /\ cur = NoEntry
    /\ conn = <<>>
    /\ conn_live = FALSE
    /\ frame = <<>>
    /\ sent = 0
    /\ written = 0
    /\ last = Quiet
    /\ run_pc = "tick"
    /\ ended = {}
    /\ name = CORC_DEVICE_NAME
    /\ adv_payload = build_adv_name_payload(CORC_DEVICE_NAME)
    /\ diff_time_ms = 0
    /\ stamp = <<>>

\* conn_handle in self._connections
Known(h) == h \in DOMAIN connections

\* the consumer's local conn and the map entry of h are one object
Aliased(h) == conn_live /\ conn # <<>> /\ conn[1].conn_handle = h

\* ------------------------------------------------------------------------
\* _irq: one action per event kind; each runs to completion
\* ------------------------------------------------------------------------
\* self._connections.pop(conn_handle, None)
DictPop(d, h) == [x \in DOMAIN d \ {h} |-> d[x]]

\* self._connections[conn_handle] = connection
DictPut(d, h, c) == [x \in DOMAIN d \cup {h} |-> IF x = h THEN c ELSE d[x]]

\* the purge written the wrong way round: it keeps the handle's own entries
PurgeQueue_KeepsOwn(q, h) == SelectSeq(q, LAMBDA c : c.conn_handle = h)

\* [c for c in self._cmd_queue if c[0] != conn_handle]
PurgeQueue(q, h) == SelectSeq(q, LAMBDA c : c.conn_handle # h)

\* A method of the BleConnection held for h has run and left it as c: the
\* consumer sees the change through its local conn when that is the same object.
Mutate(h, c) ==
    /\ connections' = [connections EXCEPT ![h] = c]
    /\ conn' = IF Aliased(h) THEN <<c>> ELSE conn
    /\ UNCHANGED conn_live

\* _add_connection that updates the address of a BleConnection it finds for
\* the handle instead of replacing the object
IrqConnect_Reuses(h, addr_type, addr) ==
    /\ connections' =
           IF Known(h)
           THEN [connections EXCEPT ![h] = [@ EXCEPT !.addr_type = addr_type,
                                                      !.addr = addr]]
           ELSE DictPut(connections, h,
                        BleConnection(h, addr_type, addr, INITIAL_MTU))
    /\ conn' = IF Aliased(h) THEN <<connections'[h]>> ELSE conn
    /\ last' = [Step("Connect", h) EXCEPT
                   !.peer = <<addr_type, addr>>,
                   !.removed = IF Known(h) THEN 1 ELSE 0]
    /\ UNCHANGED <<startup, clock, run_pc, cmd_queue, cmd_event, should_advertise, pc, cur, conn_live,
                   frame, sent, written>>

\* _IRQ_CENTRAL_CONNECT -> _add_connection: an occupied handle is evicted first
IrqConnect(h, addr_type, addr) ==
    /\ connections' = DictPut(DictPop(connections, h), h,
                              BleConnection(h, addr_type, addr, INITIAL_MTU))
    /\ conn_live' = IF Aliased(h) THEN FALSE ELSE conn_live
    /\ last' = [Step("Connect", h) EXCEPT
                   !.peer = <<addr_type, addr>>,
                   !.removed = IF Known(h) THEN 1 ELSE 0]
    /\ UNCHANGED <<startup, clock, run_pc, cmd_queue, cmd_event, should_advertise, pc, cur, conn,
                   frame, sent, written>>

\* _remove_connection with a return statement for the popped BleConnection
RemoveConnection_Returns(d, h) ==
    [connections |-> DictPop(d, h),
     result |-> IF h \in DOMAIN d THEN <<d[h]>> ELSE <<>>]

\* _remove_connection: the dictionary it leaves and the value the call
\* evaluates to; the function has no return statement, so that is None
RemoveConnection(d, h) ==
    [connections |-> DictPop(d, h), result |-> <<>>]

\* _IRQ_CENTRAL_DISCONNECT with the restart of advertising done in the callback
IrqDisconnect_Advertises(h) ==
    /\ connections' = RemoveConnection(connections, h).connections
    /\ conn_live' = IF Aliased(h) THEN FALSE ELSE conn_live
    /\ cmd_queue' = PurgeQueue(cmd_queue, h)
    /\ should_advertise' = FALSE
    /\ last' = [Step("Disconnect", h) EXCEPT
                   !.removed = Len(cmd_queue) - Len(cmd_queue'),
                   !.adv = "ok"]
    /\ UNCHANGED <<startup, clock, ended, run_pc, cmd_event, pc, cur, conn, frame, sent, written>>

\* _IRQ_CENTRAL_DISCONNECT
IrqDisconnect(h) ==
    /\ connections' = RemoveConnection(connections, h).connections
    /\ conn_live' = IF Aliased(h) THEN FALSE ELSE conn_live
    /\ cmd_queue' = PurgeQueue(cmd_queue, h)
    /\ should_advertise' = TRUE
    /\ last' = [Step("Disconnect", h) EXCEPT
                   !.removed = Len(cmd_queue) - Len(cmd_queue'),
                   !.ret = RemoveConnection(connections, h).result]
    /\ UNCHANGED <<startup, clock, ended, run_pc, cmd_event, pc, cur, conn, frame, sent, written>>

\* _IRQ_GATTS_WRITE that appends the value and leaves out self._cmd_event.set()
IrqWrite_NoSignal(h, value_handle, value, read_ok) ==
    /\ IF value_handle # rx_handle THEN
           /\ last' = Step("WriteOther", h)
           /\ UNCHANGED <<cmd_queue, written>>
       ELSE IF ~read_ok THEN
           /\ last' = [Step("IrqRaised", h) EXCEPT !.ok = FALSE]
           /\ UNCHANGED <<cmd_queue, written>>
       ELSE
           /\ cmd_queue' = Append(cmd_queue,
                  [conn_handle |-> h, value |-> value, seq |-> written + 1])
           /\ written' = written + 1
           /\ last' = Quiet
    /\ UNCHANGED <<startup, clock, ended, run_pc, cmd_event, connections, should_advertise, pc, cur,
                   conn, conn_live, frame, sent>>

\* _IRQ_GATTS_WRITE; read_ok is whether gatts_read returns (it raises OSError
\* otherwise, and nothing in _irq catches it)
IrqWrite(h, value_handle, value, read_ok) ==
    /\ IF value_handle # rx_handle THEN
           /\ last' = Step("WriteOther", h)
           /\ UNCHANGED <<cmd_queue, cmd_event, written>>
       ELSE IF ~read_ok THEN
           /\ last' = [Step("IrqRaised", h) EXCEPT !.ok = FALSE]
           /\ UNCHANGED <<cmd_queue, cmd_event, written>>
       ELSE
           /\ cmd_queue' = Append(cmd_queue,
                  [conn_handle |-> h, value |-> value, seq |-> written + 1])
           /\ cmd_event' = TRUE
           /\ written' = written + 1
           /\ last' = Quiet
    /\ UNCHANGED <<startup, clock, ended, run_pc, connections, should_advertise, pc, cur, conn, conn_live,
                   frame, sent>>

\* _IRQ_MTU_EXCHANGED that makes a BleConnection for a handle it does not find
IrqMtuExchanged_Creates(h, mtu) ==
    /\ connections' = IF Known(h)
                      THEN [connections EXCEPT ![h].mtu = mtu]
                      ELSE DictPut(connections, h, BleConnection(h, 0, 0, mtu))
    /\ conn' = IF Aliased(h) THEN <<connections'[h]>> ELSE conn
    /\ last' = Step("MtuExchanged", h)
    /\ UNCHANGED <<startup, clock, ended, run_pc, cmd_queue, cmd_event, should_advertise, pc, cur, conn_live,
                   frame, sent, written>>

\* _IRQ_MTU_EXCHANGED -> update_mtu
IrqMtuExchanged(h, mtu) ==
    /\ IF Known(h)
       THEN Mutate(h, [connections[h] EXCEPT !.mtu = mtu])
       ELSE UNCHANGED <<connections, conn, conn_live>>
    /\ last' = Step("MtuExchanged", h)
    /\ UNCHANGED <<startup, clock, ended, run_pc, cmd_queue, cmd_event, should_advertise, pc, cur, frame,
                   sent, written>>

\* _IRQ_CONNECTION_UPDATE -> update_connection_params
IrqConnectionUpdate(h, conn_interval, conn_latency, supervision_timeout, status) ==
    /\ IF Known(h)
       THEN Mutate(h, [connections[h] EXCEPT
                          !.conn_interval = conn_interval,
                          !.conn_latency = conn_latency,
                          !.supervision_timeout = supervision_timeout,
                          !.conn_status = status])
       ELSE UNCHANGED <<connections, conn, conn_live>>
    /\ last' = Step("ConnectionUpdate", h)
    /\ UNCHANGED <<startup, clock, ended, run_pc, cmd_queue, cmd_event, should_advertise, pc, cur, frame,
                   sent, written>>

\* _IRQ_ENCRYPTION_UPDATE -> update_security (bool() of the three flags)
IrqEncryptionUpdate(h, encrypted, authenticated, bonded, key_size) ==
    /\ IF Known(h)
       THEN Mutate(h, [connections[h] EXCEPT
                          !.encrypted = (encrypted # 0),
                          !.authenticated = (authenticated # 0),
                          !.bonded = (bonded # 0),
                          !.key_size = key_size])
       ELSE UNCHANGED <<connections, conn, conn_live>>
    /\ last' = Step("EncryptionUpdate", h)
    /\ UNCHANGED <<startup, clock, ended, run_pc, cmd_queue, cmd_event, should_advertise, pc, cur, frame,
                   sent, written>>

\* any other event code: logged
IrqUnknown ==
    /\ last' = Step("Unknown", 0)
    /\ UNCHANGED <<startup, clock, ended, run_pc, connections, cmd_queue, cmd_event, should_advertise, pc,
                   cur, conn, conn_live, frame, sent, written>>

\* ------------------------------------------------------------------------
\* _process_commands: one action per program point
\* ------------------------------------------------------------------------
\* The iteration is over (continue, or the end of the loop body): its locals
\* are dead until the next pop and lookup assign them again.
EndIteration ==
    /\ pc' = "test"
    /\ cur' = NoEntry
    /\ conn' = <<>>
    /\ conn_live' = FALSE
    /\ frame' = <<>>

\* await self._cmd_event.wait(): the task resumes once the flag is set ...
Wake ==
    /\ pc = "wait"
    /\ cmd_event
    /\ pc' = "clear"
    /\ last' = Quiet
    /\ UNCHANGED <<startup, clock, ended, run_pc, connections, cmd_queue, cmd_event, should_advertise, cur,
                   conn, conn_live, frame, sent, written>>

\* ... and wait() clears the flag before it returns
Clear ==
    /\ pc = "clear"
    /\ cmd_event' = FALSE
    /\ pc' = "test"
    /\ last' = Quiet
    /\ UNCHANGED <<startup, clock, ended, run_pc, connections, cmd_queue, should_advertise, cur, conn,
                   conn_live, frame, sent, written>>

\* while self._cmd_queue:
Test ==
    /\ pc = "test"
    /\ pc' = IF cmd_queue # <<>> THEN "pop" ELSE "wait"
    /\ last' = Quiet
    /\ UNCHANGED <<startup, clock, ended, run_pc, connections, cmd_queue, cmd_event, should_advertise, cur,
                   conn, conn_live, frame, sent, written>>

\* pop() for pop(0): the entry appended last is taken
Pop_Last ==
    /\ pc = "pop"
    /\ IF cmd_queue = <<>> THEN
           /\ pc' = "dead"
           /\ last' = [Step("IndexError", 0) EXCEPT !.ok = FALSE]
           /\ UNCHANGED <<cmd_queue, cur, frame, sent>>
       ELSE
           /\ cur' = cmd_queue[Len(cmd_queue)]
           /\ cmd_queue' = SubSeq(cmd_queue, 1, Len(cmd_queue) - 1)
           /\ frame' = <<>>
           /\ sent' = 0
           /\ pc' = "lookup"
           /\ last' = Quiet
    /\ UNCHANGED <<startup, clock, ended, run_pc, connections, cmd_event, should_advertise, conn,
                   conn_live, written>>

\* conn_handle, value = self._cmd_queue.pop(0); IndexError on an empty list
Pop ==
    /\ pc = "pop"
    /\ IF cmd_queue = <<>> THEN
           /\ pc' = "dead"
           /\ last' = [Step("IndexError", 0) EXCEPT !.ok = FALSE]
           /\ UNCHANGED <<cmd_queue, cur, frame, sent>>
       ELSE
           /\ cur' = Head(cmd_queue)
           /\ cmd_queue' = Tail(cmd_queue)
           /\ frame' = <<>>
           /\ sent' = 0
           /\ pc' = "lookup"
           /\ last' = Quiet
    /\ UNCHANGED <<startup, clock, ended, run_pc, connections, cmd_event, should_advertise, conn, conn_live,
                   written>>

\* conn = self._get_connection(conn_handle), then the header checks and the
\* dispatch by opcode up to the frame send_response builds
Lookup ==
    /\ pc = "lookup"
    /\ LET c == Classify(cur.value)
       IN  /\ last' = [Step(c.why, cur.conn_handle) EXCEPT
                          !.ok = (c.kind # "raise")]
           /\ IF c.kind = "drop" THEN EndIteration
              ELSE /\ conn' = IF Known(cur.conn_handle)
                              THEN <<connections[cur.conn_handle]>> ELSE <<>>
                   /\ conn_live' = Known(cur.conn_handle)
                   /\ frame' = c.frame
                   /\ pc' = CASE c.kind = "resp" -> "check"
                              [] c.kind = "maxlen" -> "maxlen"
                              [] OTHER -> "dead"
                   /\ UNCHANGED cur
    /\ UNCHANGED <<startup, clock, ended, run_pc, connections, cmd_queue, cmd_event, should_advertise, sent,
                   written>>

\* max_len = (conn.mtu - 3) if conn else 20;
\* send_response(..., RES_OK, bytes([max_len])) up to the built frame
MaxLen ==
    /\ pc = "maxlen"
    /\ LET payload == BytesOfOne(MaxLenOf(conn))
       IN  IF payload = <<>> THEN
               /\ pc' = "dead"
               /\ last' = [Step("ValueError", cur.conn_handle) EXCEPT !.ok = FALSE]
               /\ UNCHANGED frame
           ELSE
               /\ frame' = EncodeResponse(At(cur.value, 2), At(cur.value, 3),
                                          RES_OK, payload)
               /\ pc' = "check"
               /\ last' = Quiet
    /\ UNCHANGED <<startup, clock, ended, run_pc, connections, cmd_queue, cmd_event, should_advertise, cur,
                   conn, conn_live, sent, written>>

\* send_notification without its test of the handle
Check_NoTest ==
    /\ pc = "check"
    /\ last' = [Step("Check", cur.conn_handle) EXCEPT !.ok = TRUE]
    /\ pc' = "notify"
    /\ UNCHANGED <<startup, clock, ended, run_pc, connections, cmd_queue, cmd_event, should_advertise, sent,
                   written, cur, conn, conn_live, frame>>

\* send_notification: if conn_handle in self._connections
Check ==
    /\ pc = "check"
    /\ last' = [Step("Check", cur.conn_handle) EXCEPT
                   !.ok = Known(cur.conn_handle)]
    /\ IF Known(cur.conn_handle)
       THEN pc' = "notify" /\ UNCHANGED <<cur, conn, conn_live, frame>>
       ELSE EndIteration
    /\ UNCHANGED <<startup, clock, ended, run_pc, connections, cmd_queue, cmd_event, should_advertise, sent,
                   written>>

\* gatts_notify outside the try: its OSError ends the command task
Notify_Fatal(ok) ==
    /\ pc = "notify"
    /\ sent' = sent + 1
    /\ last' = [Step("Notify", cur.conn_handle) EXCEPT !.ok = ok]
    /\ IF ok THEN EndIteration
       ELSE pc' = "dead" /\ UNCHANGED <<cur, conn, conn_live, frame>>
    /\ UNCHANGED <<startup, clock, ended, run_pc, connections, cmd_queue, cmd_event, should_advertise,
                   written>>

\* self._ble.gatts_notify(conn_handle, self._tx_handle, data); an OSError is
\* caught and logged
Notify(ok) ==
    /\ pc = "notify"
    /\ sent' = sent + 1
    /\ last' = [Step("Notify", cur.conn_handle) EXCEPT !.ok = ok]
    /\ EndIteration
    /\ UNCHANGED <<startup, clock, ended, run_pc, connections, cmd_queue, cmd_event, should_advertise,
                   written>>

Consumer == Wake \/ Clear \/ Test \/ Pop \/ Lookup \/ MaxLen \/ Check
               \/ \E ok \in BOOLEAN : Notify(ok)

\* ------------------------------------------------------------------------
\* run: one action per program point of its loop
\* ------------------------------------------------------------------------
\* what the run() task leaves alone
run_frame == <<connections, cmd_queue, cmd_event, pc, cur, conn, conn_live,
               frame, sent, written, ended, startup, clock>>

\* if self._should_advertise:
RunTick ==
    /\ run_pc = "tick"
    /\ ended = {}
    /\ name = CORC_DEVICE_NAME
    /\ adv_payload = build_adv_name_payload(CORC_DEVICE_NAME)
    /\ diff_time_ms = 0
    /\ stamp = <<>>
    /\ run_pc' = IF should_advertise THEN "clear" ELSE "sleep"
    /\ last' = Quiet
    /\ UNCHANGED <<should_advertise, run_frame>>

\* self._should_advertise = False
RunClear ==
    /\ run_pc = "clear"
    /\ should_advertise' = FALSE
    /\ run_pc' = "advertise"
    /\ last' = Quiet
    /\ UNCHANGED run_frame

\* self._advertise() -> gap_advertise, which returns or raises OSError
RunAdvertise(ok) ==
    /\ run_pc = "advertise"
    /\ run_pc' = IF ok THEN "sleep" ELSE "failed"
    /\ last' = [Step("Advertise", 0) EXCEPT
                   !.ok = ok, !.adv = IF ok THEN "ok" ELSE "OSError"]
    /\ UNCHANGED <<should_advertise, run_frame>>

\* the handler that sets the flag without the assignment
RunFailed_GivesUp ==
    /\ run_pc = "failed"
    /\ run_pc' = "sleep"
    /\ last' = Step("AdvertiseFailed", 0)
    /\ UNCHANGED <<should_advertise, run_frame>>

\* except OSError: self._should_advertise = True
RunFailed ==
    /\ run_pc = "failed"
    /\ should_advertise' = TRUE
    /\ run_pc' = "sleep"
    /\ last' = Step("AdvertiseFailed", 0)
    /\ UNCHANGED run_frame

\* await asyncio.sleep(1)
RunSleep ==
    /\ run_pc = "sleep"
    /\ run_pc' = "tick"
    /\ last' = Quiet
    /\ UNCHANGED <<should_advertise, run_frame>>

RunLoop ==
    RunTick \/ RunClear \/ (\E ok \in BOOLEAN : RunAdvertise(ok)) \/ RunFailed
        \/ RunSleep

\* ------------------------------------------------------------------------
\* Inputs
\* ------------------------------------------------------------------------
PingFrame == <<124, 192, 5, 1, 0>>

MaxLenFrame == <<124, 192, 7, 3, 0>>

TruncatedFrame == <<124, 192, 1, 3, 10>>

\* values written in the full pipeline: too short, answered from the frame
\* alone, answered from the MTU, truncated
Frames == {<<>>, PingFrame, MaxLenFrame, TruncatedFrame}

\* values written where only the queue discipline is of interest
QueueFrames == {PingFrame, MaxLenFrame}

\* Every event kind _irq can be called with.  A written value counts against
\* MaxFrames only when it is enqueued; the callback does not look into the
\* value, so one value stands for all.
Irq ==
    \/ \E h \in Handles, p \in Peers :
          IrqConnect(h, p[1], p[2]) /\ UNCHANGED ended
    \/ \E h \in Handles : IrqDisconnect(h)
    \/ \E h \in Handles :
          written < MaxFrames /\ IrqWrite(h, rx_handle, PingFrame, TRUE)
    \/ \E h \in Handles : IrqWrite(h, rx_handle, PingFrame, FALSE)
    \/ \E h \in Handles : IrqWrite(h, tx_handle, PingFrame, TRUE)
    \/ \E h \in Handles, m \in MtuValues : IrqMtuExchanged(h, m)
    \/ \E h \in Handles : IrqConnectionUpdate(h, 24, 0, 400, 0)
    \/ \E h \in Handles : IrqEncryptionUpdate(h, 1, 0, 1, 16)
    \/ IrqUnknown

\* The callback alone, the command task suspended.
SpecIrq == Init /\ [][Irq]_vars

\* The events the command task reads the effects of.  Connection parameters
\* and security are fields it never reads, other attributes and unknown
\* events change nothing: SpecIrq covers them.
PipelineIrq ==
    \/ \E h \in Handles : IrqConnect(h, 0, 161) /\ UNCHANGED ended
    \/ \E h \in Handles : IrqDisconnect(h)
    \/ \E h \in Handles, v \in Frames :
          written < MaxFrames /\ IrqWrite(h, rx_handle, v, TRUE)
    \/ \E h \in Handles, m \in MtuValues : IrqMtuExchanged(h, m)

Next == PipelineIrq \/ Consumer

\* The callback interleaved with the command task.
Spec == Init /\ [][Next]_vars

\* Connect, Disconnect and Write against the command task, with longer queues.
QueueIrq ==
    \/ \E h \in Handles : IrqConnect(h, 0, 161) /\ UNCHANGED ended
    \/ \E h \in Handles : IrqDisconnect(h)
    \/ \E h \in Handles, v \in QueueFrames :
          written < MaxWrites /\ IrqWrite(h, rx_handle, v, TRUE)

NextQueue == QueueIrq \/ Consumer

SpecQueue == Init /\ [][NextQueue]_vars

\* uasyncio runs every ready task in turn: the command task is never starved
FairSpecQueue == SpecQueue /\ WF_vars(Consumer)

\* the entries of handle h that are queued or in the hands of the command task
HeldFor(h) ==
    {cmd_queue[i].seq : i \in {j \in DOMAIN cmd_queue : cmd_queue[j].conn_handle = h}}
        \cup (IF cur # NoEntry /\ cur.conn_handle = h THEN {cur.seq} ELSE {})

\* The queue against the command task with the links followed: a Connect on h
\* makes a new BleConnection, so every entry of h still held was written
\* before it; a central writes on a handle it is connected on.
NextLinks ==
    \/ \E h \in Handles :
          IrqConnect(h, 0, 161) /\ ended' = ended \cup HeldFor(h)
    \/ \E h \in Handles : IrqDisconnect(h)
    \/ \E h \in Handles, v \in QueueFrames :
          /\ written < MaxWrites
          /\ Known(h)
          /\ IrqWrite(h, rx_handle, v, TRUE)
    \/ Consumer

SpecLinks == Init /\ [][NextLinks]_vars

\* The state __init__ leaves: its call of _advertise (line 202) has returned.
InitRun ==
    /\ connections = <<>>
    /\ cmd_queue = <<>>
    /\ cmd_event = FALSE
    /\ should_advertise = FALSE
    /\ pc = "wait"
    /\ cur = NoEntry
    /\ conn = <<>>
    /\ conn_live = FALSE
    /\ frame = <<>>
    /\ sent = 0
    /\ written = 0
    /\ last = [Step("__init__", 0) EXCEPT !.adv = "ok"]
    /\ run_pc = "tick"
    /\ ended = {}
    /\ name = CORC_DEVICE_NAME
    /\ adv_payload = build_adv_name_payload(CORC_DEVICE_NAME)
    /\ diff_time_ms = 0
    /\ stamp = <<>>

\* Connect and Disconnect against the run() loop.
NextRun ==
    \/ \E h \in Handles, p \in Peers :
          IrqConnect(h, p[1], p[2]) /\ UNCHANGED ended
    \/ \E h \in Handles : IrqDisconnect(h)
    \/ RunLoop

SpecRun == InitRun /\ [][NextRun]_vars

\* sleep(1) returns and uasyncio resumes the run() task
FairSpecRun == SpecRun /\ WF_vars(RunLoop)

\* ------------------------------------------------------------------------
\* The payload builder and the time stamp on many inputs
\* ------------------------------------------------------------------------
\* nothing connected, nothing queued, both tasks at their start
Idle ==
    /\ connections = <<>>
    /\ cmd_queue = <<>>
    /\ cmd_event = FALSE
    /\ should_advertise = FALSE
    /\ pc = "wait"
    /\ cur = NoEntry
    /\ conn = <<>>
    /\ conn_live = FALSE
    /\ frame = <<>>
    /\ sent = 0
    /\ written = 0
    /\ last = Quiet
    /\ run_pc = "tick"
    /\ ended = {}

\* the character at position i of the k-th kind of name: "CORC" repeated,
\* characters of two bytes, of three bytes, and of one to four bytes in turn
NameChar(k, i) ==
    CASE k = 1 -> CORC_DEVICE_NAME[((i - 1) % 4) + 1]
      [] k = 2 -> 233
      [] k = 3 -> 8364
      [] OTHER -> <<67, 233, 8364, 128512>>[((i - 1) % 4) + 1]

\* device names of 0..MaxNameLen characters
DeviceNames ==
    {[i \in 1..n |-> NameChar(k, i)] : n \in 0..MaxNameLen, k \in 1..4}

\* __init__ up to line 194, for any name
InitAdv ==
    /\ Idle
    /\ name \in DeviceNames
    /\ adv_payload = <<>>
    /\ diff_time_ms = 0
    /\ stamp = <<>>

\* self._adv_payload = self._build_adv_name_payload(self._name)
BuildAdvPayload ==
    /\ adv_payload = <<>>
    /\ adv_payload' = build_adv_name_payload(name)
    /\ UNCHANGED <<name, clock, ended, run_pc, connections, cmd_queue,
                   cmd_event, should_advertise, pc, cur, conn, conn_live,
                   frame, sent, written, last>>

SpecAdv == InitAdv /\ [][BuildAdvPayload]_vars

\* times of up to MaxMinutes minutes, around the places where a digit is added
\* and where seconds and minutes wrap
TimeValues ==
    {m * 60000 + sec * 1000 + ms :
        m \in {0, 1, 9, 10, 59, 60, 99, MaxMinutes},
        sec \in {0, 1, 9, 59},
        ms \in {0, 5, 500, 999}}

\* a log line is about to be stamped
InitClock ==
    /\ Idle
    /\ name = CORC_DEVICE_NAME
    /\ adv_payload = build_adv_name_payload(CORC_DEVICE_NAME)
    /\ diff_time_ms \in TimeValues
    /\ stamp = <<>>

\* format_current_stamp: return format_timestamp_ms(get_timestamp_ms())
FormatStamp ==
    /\ stamp = <<>>
    /\ stamp' = format_timestamp_ms(diff_time_ms)
    /\ UNCHANGED <<diff_time_ms, startup, ended, run_pc, connections,
                   cmd_queue, cmd_event, should_advertise, pc, cur, conn,
                   conn_live, frame, sent, written, last>>

SpecClock == InitClock /\ [][FormatStamp]_vars

\* ------------------------------------------------------------------------
\* The codec on many inputs: one written value, any of CodecValues, is in the
\* queue ahead of a Ping when the command task wakes; no event interferes.
\* ------------------------------------------------------------------------
\* payloads of 0..MaxPayload bytes
Payloads == {[i \in 1..n |-> 65 + i] : n \in 0..MaxPayload}

\* requests with the magic, every opcode, declared lengths that match, fall
\* short of and exceed the bytes that follow
MagicValues ==
    {<<124, 192, id, op, n>> \o p :
        id \in {5, 255}, op \in Byte, n \in {0, 1, 10}, p \in Payloads}

\* values of every length from 0 whose first two bytes are or are not the magic
OtherValues ==
    {Slice(m \o <<9, 2, 0, 66>>, 0, n) :
        m \in {<<124, 192>>, <<192, 124>>, <<124, 0>>, <<0, 192>>}, n \in 0..6}

\* values of 5 bytes and more with a wrong magic and every kind of remainder:
\* the three opcodes and an unknown one, declared lengths that match, fall
\* short of and exceed the bytes that follow
BadMagicValues ==
    {m \o <<id, op, n>> \o p :
        m \in {<<192, 124>>, <<124, 193>>, <<125, 192>>, <<0, 0>>},
        id \in {5}, op \in {1, 2, 3, 255}, n \in {0, 1, 10}, p \in Payloads}

CodecValues == MagicValues \cup OtherValues \cup BadMagicValues

InitCodec ==
    /\ \E known \in BOOLEAN :
          connections = IF known
                        THEN DictPut(<<>>, 1, BleConnection(1, 0, 161, INITIAL_MTU))
                        ELSE <<>>
    /\ \E v \in CodecValues :
          cmd_queue = <<[conn_handle |-> 1, value |-> v, seq |-> 1],
                        [conn_handle |-> 1, value |-> PingFrame, seq |-> 2]>>
    /\ cmd_event = TRUE
    /\ should_advertise = FALSE
    /\ pc = "wait"
    /\ cur = NoEntry
    /\ conn = <<>>
    /\ conn_live = FALSE
    /\ frame = <<>>
    /\ sent = 0
    /\ written = 2
    /\ last = Quiet
    /\ run_pc = "tick"
    /\ ended = {}
    /\ name = CORC_DEVICE_NAME
    /\ adv_payload = build_adv_name_payload(CORC_DEVICE_NAME)
    /\ diff_time_ms = 0
    /\ stamp = <<>>

SpecCodec == InitCodec /\ [][Consumer]_vars

\* ------------------------------------------------------------------------
\* Claims
\* ------------------------------------------------------------------------
\* the entry numbered s is in the inbound queue
InQueue(s) == \E i \in DOMAIN cmd_queue : cmd_queue[i].seq = s

\* C1: no enqueued frame is lost: every entry a Write appended eventually
\* leaves the queue, popped by the command task or purged by a Disconnect of
\* its handle, the command task being scheduled fairly.
C1_NoFrameLost == \A s \in 1..MaxWrites : InQueue(s) ~> ~InQueue(s)

\* positions of q whose entry does not belong to handle h
KeptPositions(q, h) == {i \in DOMAIN q : q[i].conn_handle # h}

\* C2: a Disconnect(h) leaves in the queue exactly the entries of the other
\* handles, each once and in their previous relative order: the k-th entry
\* kept is the k-th entry of the new queue.
C2_DisconnectPurgesExactly ==
    [][\A h \in Handles :
          (last'.op = "Disconnect" /\ last'.h = h) =>
              LET kept == KeptPositions(cmd_queue, h)
              IN  /\ Len(cmd_queue') = Cardinality(kept)
                  /\ \A i \in kept :
                        cmd_queue'[Cardinality({j \in kept : j <= i})]
                            = cmd_queue[i]]_vars

\* C2 witness: a Disconnect has purged an entry out of the middle of the queue
\* and two entries of the other handle are still queued.
C2_Witness ==
    /\ last.op = "Disconnect"
    /\ last.removed = 1
    /\ Len(cmd_queue) = 2
    /\ cmd_queue[1].seq = 1
    /\ cmd_queue[2].seq = 3

\* the command task takes the step that leaves program point p
Leaves(p) == pc = p /\ pc' # p

\* C3: no response is sent to a dead handle: whenever gatts_notify is called
\* for the handle of the popped entry, that handle is a key of connections.
C3_NotifyOnlyKnownHandle ==
    [][Leaves("notify") => cur.conn_handle \in DOMAIN connections]_vars

\* the value passes the length and the magic check (it is answered, by opcode
\* or as truncated)
Answerable(value) ==
    /\ Len(value) >= 5
    /\ value[1] = 124
    /\ value[2] = 192

\* the iteration for the popped entry ends with this step
EndsIteration == pc \in {"lookup", "maxlen", "check", "notify"} /\ pc' = "test"

C5_IterationNeverRaises == ~(pc = "dead" /\ cur # NoEntry)

\* C6: the event callback returns normally for every event, a Write whose
\* gatts_read fails included.
C6_IrqNeverRaises == last.op # "IrqRaised"

\* n clamped into one byte
ClampByte(n) == IF n < 0 THEN 0 ELSE IF n > 255 THEN 255 ELSE n

\* the MTU connections holds for h now, 23 when h has no BleConnection
MtuNow(h) == IF h \in DOMAIN connections THEN connections[h].mtu ELSE 23

\* C7: the answer to GetDataMaxLen on handle h is OK with the one byte
\* clamp(MTU - 3) of the MTU last exchanged on h (20 without a BleConnection).
C7_MaxLenIsClampedMtu ==
    [][Leaves("maxlen") =>
          /\ pc' = "check"
          /\ frame' = <<124, 192, cur.value[3], 3, 0, 1,
                        ClampByte(MtuNow(cur.conn_handle) - 3)>>]_vars

\* magic 7C C0, id, opcode, declared length, at least that many payload bytes
WellFormedRequest(value) ==
    /\ Answerable(value)
    /\ Len(value) >= 5 + value[5]

\* the result code taxonomy of the protocol
ResultCodes == {0, 6, 13, 17, 18, 19, 20, 255}

\* f is a response frame that echoes id and opcode of the request value
IsResponseTo(f, value) ==
    /\ Len(f) >= 6
    /\ f[1] = 124
    /\ f[2] = 192
    /\ f[3] = value[3]
    /\ f[4] = value[4]
    /\ f[5] \in ResultCodes
    /\ f[6] = Len(f) - 6

\* C8: the response built for a well-formed request is 7C C0, the request's
\* id and opcode, a result code, the payload length, the payload; Ping is
\* answered OK with no payload and Version OK with the payload 01 00 00.
C8_ResponseFrameFormat ==
    [][((Leaves("lookup") \/ Leaves("maxlen")) /\ WellFormedRequest(cur.value)) =>
          /\ frame' # <<>> => IsResponseTo(frame', cur.value)
          /\ cur.value[4] = 1 => frame' = <<124, 192, cur.value[3], 1, 0, 0>>
          /\ cur.value[4] = 2 =>
                 frame' = <<124, 192, cur.value[3], 2, 0, 3, 1, 0, 0>>]_vars

\* C8 witness: scenario B, 7C C0 09 02 00 is answered 7C C0 09 02 00 03 01 00 00
C8_Witness ==
    /\ pc = "check"
    /\ cur.value = <<124, 192, 9, 2, 0>>
    /\ frame = <<124, 192, 9, 2, 0, 3, 1, 0, 0>>

\* C9: a well-formed request with an opcode outside 1..3 is answered with
\* result 0x06 or 0x11, id and opcode echoed, no payload, and does not raise.
C9_UnknownOpcodeUnsupported ==
    [][(Leaves("lookup") /\ WellFormedRequest(cur.value)
           /\ cur.value[4] \notin {1, 2, 3}) =>
          /\ pc' = "check"
          /\ \E r \in {6, 17} :
                frame' = <<124, 192, cur.value[3], cur.value[4], r, 0>>]_vars

\* C9 witness: opcode 0xFF, with a payload, has been answered Unsupported
C9_Witness ==
    /\ pc = "check"
    /\ cur.value = <<124, 192, 255, 255, 1, 66, 67>>
    /\ frame = <<124, 192, 255, 255, 17, 0>>

\* C10: a value shorter than 5 bytes is dropped as too short: nothing is read
\* past its end (no IndexError), nothing is notified, connections and the rest
\* of the queue are untouched, and the loop goes on to its test.
C10_TooShortDropped ==
    [][(Leaves("lookup") /\ Len(cur.value) < 5) =>
          /\ pc' = "test"
          /\ last'.op = "TooShort"
          /\ frame' = <<>>
          /\ sent' = 0
          /\ connections' = connections
          /\ cmd_queue' = cmd_queue]_vars

\* C10 witness: the first entry was dropped as too short without a
\* notification and the entry behind it is still queued for the loop
C10_Witness ==
    /\ last.op = "TooShort"
    /\ pc = "test"
    /\ sent = 0
    /\ Len(cmd_queue) = 1
    /\ cmd_queue[1].seq = 2

\* the value has 5 bytes or more and the magic 7C C0, and fewer bytes follow
\* the header than byte 4 declares
DeclaresMore(value) == Answerable(value) /\ Len(value) < 5 + value[5]

\* C11: a popped value of 5 bytes or more with the magic is treated as
\* truncated exactly when its length is below 5 plus byte 4; it is then not
\* dispatched by opcode (GetDataMaxLen does not read the MTU) and one response
\* is built: 7C C0, bytes 2 and 3 of the value, 0x0D, 00; gatts_notify is
\* called once with it for a registered handle.
C11_TruncatedAnswered ==
    [][/\ (Leaves("lookup") /\ Answerable(cur.value)) =>
              /\ (last'.op = "Truncated") <=> DeclaresMore(cur.value)
              /\ DeclaresMore(cur.value) =>
                     /\ pc' = "check"
                     /\ frame' = <<124, 192, cur.value[3], cur.value[4], 13, 0>>
       /\ (Leaves("notify") /\ DeclaresMore(cur.value)) =>
              /\ frame = <<124, 192, cur.value[3], cur.value[4], 13, 0>>
              /\ sent' = 1
      ]_vars

\* C11 witness: 7C C0 05 03 0A, a GetDataMaxLen that declares 10 bytes and
\* carries none, has been answered 7C C0 05 03 0D 00
C11_Witness ==
    /\ last.op = "Truncated"
    /\ pc = "check"
    /\ cur.value = <<124, 192, 5, 3, 10>>
    /\ frame = <<124, 192, 5, 3, 13, 0>>

\* the value has 5 bytes or more and its first two bytes are not 7C C0
WrongMagic(value) ==
    /\ Len(value) >= 5
    /\ (value[1] # 124 \/ value[2] # 192)

\* C12: a popped value of 5 bytes or more whose first two bytes are not
\* 7C C0 is dropped as bad magic whatever follows: no opcode handler runs, no
\* response is built or notified, connections and the rest of the queue are
\* untouched, and the loop goes on to its test; a value with 7C C0 is never
\* dropped as bad magic.
C12_BadMagicRejected ==
    [][Leaves("lookup") =>
          /\ WrongMagic(cur.value) =>
                 /\ pc' = "test"
                 /\ last'.op = "BadMagic"
                 /\ frame' = <<>>
                 /\ sent' = 0
                 /\ connections' = connections
                 /\ cmd_queue' = cmd_queue
          /\ Answerable(cur.value) => last'.op # "BadMagic"]_vars

\* C12 witness: a value with the bytes of the magic swapped was dropped
\* without a notification and the entry behind it is still queued
C12_Witness ==
    /\ last.op = "BadMagic"
    /\ pc = "test"
    /\ sent = 0
    /\ Len(cmd_queue) = 1
    /\ cmd_queue[1].seq = 2

\* connections holds, under every key, one BleConnection, made for that key
OneRecordPerHandle(d) ==
    /\ DOMAIN d \subseteq Handles
    /\ \A h \in DOMAIN d : d[h].conn_handle = h

\* C13: connections holds at most one BleConnection per handle, and a
\* Connect(h, addr_type, addr) leaves under h exactly the BleConnection the
\* constructor makes for the new address: MTU 23, connection parameters
\* unset, security false and unset, whatever the evicted one held; the
\* BleConnections of the other handles are the ones held before.
C13_ConnectEvicts ==
    [][/\ OneRecordPerHandle(connections')
       /\ \A h \in Handles :
             (last'.op = "Connect" /\ last'.h = h) =>
                /\ h \in DOMAIN connections'
                /\ connections'[h] =
                       [conn_handle |-> h,
                        addr_type |-> last'.peer[1], addr |-> last'.peer[2],
                        mtu |-> 23,
                        conn_interval |-> None, conn_latency |-> None,
                        supervision_timeout |-> None, conn_status |-> None,
                        encrypted |-> FALSE, authenticated |-> FALSE,
                        bonded |-> FALSE, key_size |-> None]
                /\ DOMAIN connections' = DOMAIN connections \cup {h}
                /\ \A g \in DOMAIN connections \ {h} :
                       connections'[g] = connections[g]
      ]_vars

\* C13 witness: a Connect from the second peer has evicted the BleConnection
\* of handle 1 while handle 2 keeps its negotiated MTU and security
C13_Witness ==
    /\ last.op = "Connect"
    /\ last.h = 1
    /\ last.removed = 1
    /\ last.peer = <<1, 178>>
    /\ connections[1].addr = 178
    /\ connections[1].mtu = 23
    /\ 2 \in DOMAIN connections
    /\ connections[2].mtu = 300
    /\ connections[2].encrypted

\* the fields each update event writes
UpdatedFields(op) ==
    CASE op = "MtuExchanged" -> {"mtu"}
      [] op = "ConnectionUpdate" ->
             {"conn_interval", "conn_latency", "supervision_timeout",
              "conn_status"}
      [] op = "EncryptionUpdate" ->
             {"encrypted", "authenticated", "bonded", "key_size"}

RecordFields ==
    {"conn_handle", "addr_type", "addr", "mtu", "conn_interval",
     "conn_latency", "supervision_timeout", "conn_status", "encrypted",
     "authenticated", "bonded", "key_size"}

\* C14: an MTU, connection parameter or encryption event returns normally and
\* leaves the queue, the event flag, the advertise flag and the set of handles
\* as they were; for a handle without a BleConnection it changes nothing, for
\* a known handle it changes only its own fields of that handle's
\* BleConnection.
C14_UpdatesTouchOwnFields ==
    [][\A h \in Handles :
          (last'.h = h /\ last'.op \in {"MtuExchanged", "ConnectionUpdate",
                                        "EncryptionUpdate"}) =>
             /\ last'.ok
             /\ cmd_queue' = cmd_queue
             /\ cmd_event' = cmd_event
             /\ should_advertise' = should_advertise
             /\ DOMAIN connections' = DOMAIN connections
             /\ \A g \in DOMAIN connections \ {h} :
                    connections'[g] = connections[g]
             /\ h \in DOMAIN connections =>
                    \A f \in RecordFields \ UpdatedFields(last'.op) :
                        connections'[h][f] = connections[h][f]
      ]_vars

\* C14 witness: an MTU event for handle 2, which has no BleConnection, has
\* returned with handle 1's BleConnection, a queued frame and the event flag
\* in place
C14_Witness ==
    /\ last.op = "MtuExchanged"
    /\ last.h = 2
    /\ DOMAIN connections = {1}
    /\ connections[1].mtu = 185
    /\ Len(cmd_queue) = 1
    /\ cmd_event
    /\ ~should_advertise

\* the run() task takes the step that leaves its program point p
RunLeaves(p) == run_pc = p /\ run_pc' # p

\* C15: a Disconnect sets _should_advertise and makes no gap_advertise call;
\* the only steps that call gap_advertise are the constructor and line 327 of
\* the run() loop.
C15_DisconnectDefersAdvertise ==
    [][/\ last'.op = "Disconnect" =>
              /\ should_advertise'
              /\ last'.adv = "-"
              /\ run_pc' = run_pc
       /\ (last' # last /\ last'.adv # "-") =>
              /\ last'.op = "Advertise"
              /\ RunLeaves("advertise")
      ]_vars

\* C15 witness: a Disconnect has been delivered while the run() task sleeps:
\* the flag is set and gap_advertise was not called
C15_Witness ==
    /\ last.op = "Disconnect"
    /\ last.adv = "-"
    /\ should_advertise
    /\ run_pc = "sleep"
    /\ connections # <<>>

\* the parts of C16 that hold of every tick: after a Disconnect gap_advertise
\* is eventually called; a failed call sets the flag in its handler and the
\* loop reaches the call again; the loop calls gap_advertise only in a tick
\* that found the flag set, and the flag is raised by a Disconnect or by the
\* handler of a failed call only.
RetryHolds ==
    /\ (last.op = "Disconnect") ~> (last.op = "Advertise")
    /\ (run_pc = "failed") ~> (run_pc = "advertise")
    /\ [][/\ RunLeaves("failed") => (should_advertise' /\ run_pc' = "sleep")
          /\ (run_pc # "clear" /\ run_pc' = "clear") => should_advertise
          /\ RunLeaves("clear") => (~should_advertise' /\ run_pc' = "advertise")
          /\ (~should_advertise /\ should_advertise') =>
                 last'.op \in {"Disconnect", "AdvertiseFailed"}
         ]_vars

\* C16 as stated: the restart is retried until it succeeds, and once a call
\* of gap_advertise has succeeded the flag is false.
C16_RetriedUntilSuccess ==
    /\ RetryHolds
    /\ [][(RunLeaves("advertise") /\ run_pc' = "sleep") =>
              ~should_advertise']_vars

\* C16 amended: the restart is retried until it succeeds; a successful call
\* leaves the flag as it finds it, which is false unless a Disconnect was
\* delivered after line 325 cleared it, and then the next tick calls
\* gap_advertise once more.
C16_RetriedUntilFlagClear ==
    /\ RetryHolds
    /\ [][(RunLeaves("advertise") /\ run_pc' = "sleep") =>
              should_advertise' = should_advertise]_vars

\* C16 witness: gap_advertise has succeeded and the flag is set, by a
\* Disconnect delivered between line 325 and line 327
C16_Witness ==
    /\ last.op = "Advertise"
    /\ last.ok
    /\ run_pc = "sleep"
    /\ should_advertise

\* C17 as stated: _remove_connection takes the BleConnection of the handle
\* out of connections and returns it, or returns None and leaves connections
\* as it is when the handle has none.
C17_RemoveReturnsRecord ==
    [][\A h \in Handles :
          (last'.op = "Disconnect" /\ last'.h = h) =>
             /\ h \notin DOMAIN connections'
             /\ h \in DOMAIN connections => last'.ret = <<connections[h]>>
             /\ h \notin DOMAIN connections =>
                    (last'.ret = <<>> /\ connections' = connections)
      ]_vars

\* C17 amended: _remove_connection takes the BleConnection of the handle out
\* of connections, keeps those of the other handles, leaves connections as it
\* is when the handle has none, and returns None in both cases.
C17_RemoveReturnsNothing ==
    [][\A h \in Handles :
          (last'.op = "Disconnect" /\ last'.h = h) =>
             /\ last'.ret = <<>>
             /\ DOMAIN connections' = DOMAIN connections \ {h}
             /\ \A g \in DOMAIN connections' : connections'[g] = connections[g]
             /\ h \notin DOMAIN connections => connections' = connections
      ]_vars

\* C17 witness: the Disconnect of handle 1 has removed its BleConnection and
\* its queued frame, the call returned None and handle 2 is still connected
C17_Witness ==
    /\ last.op = "Disconnect"
    /\ last.h = 1
    /\ last.removed = 1
    /\ last.ret = <<>>
    /\ DOMAIN connections = {2}
    /\ connections[2].mtu = 185

\* the entries of q are in the order of their Write events
InWriteOrder(q) == \A i, j \in DOMAIN q : i < j => q[i].seq < q[j].seq

\* C18: the queue is one FIFO over all handles: it holds its entries in the
\* order of their Write events, a Write appends behind all of them, the pop
\* takes the oldest, and while an entry is processed and notified every entry
\* still queued, of whatever handle, was written after it.
C18_GlobalFifo ==
    [][/\ InWriteOrder(cmd_queue')
       /\ \A i \in DOMAIN cmd_queue' : cmd_queue'[i].seq <= written'
       /\ (pc = "pop" /\ pc' = "lookup") =>
              /\ cur' = cmd_queue[1]
              /\ \A i \in DOMAIN cmd_queue : cur'.seq <= cmd_queue[i].seq
       /\ pc' \in {"lookup", "maxlen", "check", "notify"} =>
              /\ cur'.seq \in 1..written'
              /\ \A i \in DOMAIN cmd_queue' : cur'.seq < cmd_queue'[i].seq
      ]_vars

\* C18 witness: the second frame written, on handle 2, is about to be
\* notified while the third, on handle 1, waits in the queue
C18_Witness ==
    /\ pc = "notify"
    /\ cur.seq = 2
    /\ cur.conn_handle = 2
    /\ Len(cmd_queue) = 1
    /\ cmd_queue[1].seq = 3
    /\ cmd_queue[1].conn_handle = 1

\* C19: a gatts_notify that raises OSError is the one call made for that
\* entry; the entry is not put back, the queue behind it and connections are
\* untouched, and the loop goes on to its test.
C19_NotifyFailureSkipped ==
    [][(Leaves("notify") /\ ~last'.ok) =>
          /\ last'.op = "Notify"
          /\ pc' = "test"
          /\ sent = 0
          /\ sent' = 1
          /\ cmd_queue' = cmd_queue
          /\ ~\E i \in DOMAIN cmd_queue' : cmd_queue'[i].seq = cur.seq
          /\ connections' = connections
      ]_vars

\* C19 witness: gatts_notify has failed for the first entry, once, and the
\* two entries written after it are still queued in their order
C19_Witness ==
    /\ last.op = "Notify"
    /\ ~last.ok
    /\ sent = 1
    /\ pc = "test"
    /\ Len(cmd_queue) = 2
    /\ cmd_queue[1].seq = 2
    /\ cmd_queue[2].seq = 3

\* the value cut to its header and the payload byte 4 declares
CutToDeclared(value) == SubSeq(value, 1, 5 + value[5])

\* the value has the magic and more bytes than 5 plus the declared length
HasTrailingBytes(value) == Answerable(value) /\ Len(value) > 5 + value[5]

\* C20: a popped value with the magic and bytes beyond its declared payload
\* is not an error: it is dispatched and answered as the value cut to 5 plus
\* the declared length is, and the payload taken from it is the declared
\* number of bytes from offset 5.
C20_TrailingBytesIgnored ==
    [][(Leaves("lookup") /\ HasTrailingBytes(cur.value)) =>
          /\ last'.op \notin {"TooShort", "BadMagic", "Truncated"}
          /\ last'.ok
          /\ last'.op = Classify(CutToDeclared(cur.value)).why
          /\ frame' = Classify(CutToDeclared(cur.value)).frame
          /\ pc' = IF cur.value[4] = 3 THEN "maxlen" ELSE "check"
          /\ cur.value[4] \notin {1, 2, 3} =>
                 frame' = <<124, 192, cur.value[3], cur.value[4], 17, 0>>
          /\ Len(PayloadOf(cur.value)) = cur.value[5]
          /\ \A i \in 1..cur.value[5] :
                 PayloadOf(cur.value)[i] = cur.value[5 + i]
      ]_vars

\* C20 witness: 7C C0 05 02 01 42 43, a Version request that declares one
\* payload byte and carries two, has been answered as Version
C20_Witness ==
    /\ pc = "check"
    /\ last.op = "Version"
    /\ cur.value = <<124, 192, 5, 2, 1, 66, 67>>
    /\ frame = <<124, 192, 5, 2, 0, 3, 1, 0, 0>>

\* C25: the pop of line 341 always finds an entry: the command task never
\* takes the step out of pop(0) with the queue empty, whatever events are
\* delivered between the test of line 340 and the pop.
C25_PopNeverEmpty ==
    [][Leaves("pop") => cmd_queue # <<>>]_vars

\* C26: no wake-up is lost: whenever the command task is suspended in
\* self._cmd_event.wait() and the queue holds an entry, the flag is set.
C26_NoLostWakeup ==
    (pc = "wait" /\ cmd_queue # <<>>) => cmd_event

\* C26 witness: the command task has drained the queue and gone back to wait,
\* and the third Write has found it there: its entry is queued, the flag set
C26_Witness ==
    /\ pc = "wait"
    /\ cmd_event
    /\ Len(cmd_queue) = 1
    /\ cmd_queue[1].seq = 3

\* the step appends one entry, numbered as the next Write, behind the queue
AppendsOne ==
    /\ Len(cmd_queue') = Len(cmd_queue) + 1
    /\ SubSeq(cmd_queue', 1, Len(cmd_queue)) = cmd_queue
    /\ cmd_queue'[Len(cmd_queue')].conn_handle \in Handles
    /\ cmd_queue'[Len(cmd_queue')].value \in QueueFrames

\* C24: an event of an unknown kind and a Write to another attribute leave
\* connections, the queue and both flags unchanged; a Write to the RX
\* characteristic appends one (conn_handle, value) entry behind the queue,
\* sets the event flag and leaves connections and the advertise flag
\* unchanged.
C24_UnhandledEventsNoEffect ==
    [][/\ last'.op \in {"Unknown", "WriteOther"} =>
              /\ connections' = connections
              /\ cmd_queue' = cmd_queue
              /\ cmd_event' = cmd_event
              /\ should_advertise' = should_advertise
       /\ (last'.op = "IrqRaised" \/ written' # written) =>
              /\ AppendsOne
              /\ cmd_event'
              /\ connections' = connections
              /\ should_advertise' = should_advertise
      ]_vars

\* C23: no frame is answered on a link it was not written on: whenever
\* gatts_notify is called for a popped entry whose handle is registered, the
\* entry was written after the Connect that made the BleConnection now
\* registered under that handle.
C23_NoStaleDispatch ==
    [][(Leaves("notify") /\ cur.conn_handle \in DOMAIN connections) =>
          cur.seq \notin ended]_vars

\* C21: the advertising payload built from a name is at most 31 bytes: the
\* flags field 02 01 06 and, for a non-empty name, a field of type 09 whose
\* length byte is the number of name bytes plus 1 and whose name bytes are
\* the first 26 bytes, or all if fewer, of the name in UTF-8.
C21_AdvPayloadFits ==
    adv_payload # <<>> =>
        /\ Len(adv_payload) <= 31
        /\ SubSeq(adv_payload, 1, 3) = <<2, 1, 6>>
        /\ name = <<>> => adv_payload = <<2, 1, 6>>
        /\ name # <<>> =>
               LET utf8 == Utf8Encode(name)
                   n == IF Len(utf8) < 26 THEN Len(utf8) ELSE 26
               IN  /\ Len(adv_payload) = 5 + n
                   /\ adv_payload[4] = n + 1
                   /\ adv_payload[5] = 9
                   /\ \A i \in 1..n : adv_payload[5 + i] = utf8[i]

\* C21 witness: a name of ten characters of three bytes each has been cut to
\* 26 bytes, inside its ninth character, and the payload is 31 bytes long
C21_Witness ==
    /\ Len(name) = 10
    /\ name[1] = 8364
    /\ Len(adv_payload) = 31
    /\ adv_payload[4] = 27
    /\ adv_payload[30] = 226
    /\ adv_payload[31] = 130

\* the number a string of decimal digits denotes
RECURSIVE Number(_)
Number(digits) ==
    IF digits = <<>> THEN 0
    ELSE 10 * Number(SubSeq(digits, 1, Len(digits) - 1))
             + (CHOOSE d \in 0..9 : Digit(d) = digits[Len(digits)])

\* C22: the stamp of d milliseconds is minutes, a colon, seconds, a point and
\* milliseconds: the minutes are d div 60000 in two digits or as many as the
\* number has, not wrapped at 60, the seconds (d div 1000) mod 60 in two
\* digits and the milliseconds d mod 1000 in three; 3600000 gives 60:00.000.
C22_TimestampFormat ==
    stamp # <<>> =>
        LET n == Len(stamp)
            mm == SubSeq(stamp, 1, n - 7)
            ss == SubSeq(stamp, n - 5, n - 4)
            ms == SubSeq(stamp, n - 2, n)
        IN  /\ n >= 9
            /\ stamp[n - 6] = ":"
            /\ stamp[n - 3] = "."
            /\ \A i \in (1..n) \ {n - 6, n - 3} :
                   \E d \in 0..9 : stamp[i] = Digit(d)
            /\ Number(mm) = diff_time_ms \div 60000
            /\ Len(mm) = 2 \/ (Len(mm) > 2 /\ mm[1] # "0")
            /\ Number(ss) = (diff_time_ms \div 1000) % 60
            /\ Number(ms) = diff_time_ms % 1000
            /\ diff_time_ms = 3600000 =>
                   stamp = <<"6", "0", ":", "0", "0", ".", "0", "0", "0">>
            /\ diff_time_ms = 61500 =>
                   stamp = <<"0", "1", ":", "0", "1", ".", "5", "0", "0">>

\* C22 witness: one hour has been formatted as 60:00.000
C22_Witness ==
    /\ diff_time_ms = 3600000
    /\ stamp = <<"6", "0", ":", "0", "0", ".", "0", "0", "0">>

====
